---- MODULE Spec2Model ----
(***************************************************************************)
(* Model of the XML option canonicaliser and its change report             *)
(* (Streamlit_XML_AI_Agent.py).                                            *)
(*                                                                         *)
(* An attribute text is a sequence of one-character strings, so that the   *)
(* comma split, the trimming and the comma join are computed as the code   *)
(* computes them.  An element is a record of its attributes and children;  *)
(* an attribute that is absent holds None.  The serialised canonical       *)
(* document is kept as the element tree that parsing it gives back.        *)
(***************************************************************************)
EXTENDS Integers, Sequences, FiniteSets, TLC

\* ------------------------------------------------------------------ bounds
\* Largest number of <option> records in an uploaded document.
MaxOptions == 2

\* -------------------------------------------------------------- primitives
\* Python's None: the result of d.get("id") on a missing attribute.
None == <<"None">>

\* An empty dict.
EmptyMap == [k \in {} |-> <<>>]

Has(f, k) == (DOMAIN f # {}) /\ (k \in DOMAIN f)

Put(f, k, v) == [x \in (IF DOMAIN f = {} THEN {} ELSE DOMAIN f) \cup {k} |->
                    IF x = k THEN v ELSE f[x]]

Range(s) == {s[i] : i \in 1..Len(s)}

Contains(s, x) == \E i \in 1..Len(s) : s[i] = x

\* elem.get(key, default)
Get(attr, default) == IF attr = None THEN default ELSE attr

\* Characters in code point order, for string comparison.
Alphabet ==
    <<" ", ",", "1", "2", "3", ":", "A", "B", "N", "X", "e", "n", "o", "p", "q">>

Ord(c) == CHOOSE i \in 1..Len(Alphabet) : Alphabet[i] = c

\* str(x)
Str(x) == IF x = None THEN <<"N", "o", "n", "e">> ELSE x

RECURSIVE StrLess(_, _)
StrLess(a, b) ==
    IF b = <<>> THEN FALSE
    ELSE IF a = <<>> THEN TRUE
    ELSE IF Head(a) = Head(b) THEN StrLess(Tail(a), Tail(b))
    ELSE Ord(Head(a)) < Ord(Head(b))

\* str.strip()
RECURSIVE Strip(_)
Strip(s) ==
    IF s = <<>> THEN s
    ELSE IF Head(s) = " " THEN Strip(Tail(s))
    ELSE IF s[Len(s)] = " " THEN Strip(SubSeq(s, 1, Len(s) - 1))
    ELSE s

\* text.split(",")
RECURSIVE SplitComma(_)
SplitComma(s) ==
    IF ~Contains(s, ",") THEN <<s>>
    ELSE LET i == CHOOSE j \in 1..Len(s) :
                     s[j] = "," /\ \A k \in 1..(j - 1) : s[k] # ","
         IN  <<SubSeq(s, 1, i - 1)>> \o SplitComma(SubSeq(s, i + 1, Len(s)))

\* ",".join(tokens)
RECURSIVE Join(_)
Join(tokens) ==
    IF tokens = <<>> THEN <<>>
    ELSE IF Len(tokens) = 1 THEN tokens[1]
    ELSE tokens[1] \o <<",">> \o Join(Tail(tokens))

\* _split_field(text): the trimmed, non-empty comma-separated tokens.
split_field(text) ==
    IF text = <<>> THEN <<>>
    ELSE LET fields == SplitComma(text)
             stripped == [i \in 1..Len(fields) |-> Strip(fields[i])]
         IN  SelectSeq(stripped, LAMBDA t : t # <<>>)

\* _split(text), the tokenizer local to generate_clean_xml_from_root.
split(text) ==
    IF text = <<>> THEN <<>>
    ELSE LET fields == SplitComma(text)
             stripped == [i \in 1..Len(fields) |-> Strip(fields[i])]
         IN  SelectSeq(stripped, LAMBDA t : t # <<>>)

\* ------------------------------------------------------------ input space
\* name="..." attributes of an uploaded <option> (None: attribute absent).
NameTexts ==
    { None,
      <<"A">>,
      <<"B", ",", "A">> }

\* value="..." attributes of an uploaded <option>.
ValueTexts ==
    { None,
      <<"1">>,
      <<"1", ",", ",", "3">>,
      <<" ", "2", ",", " ", "1">> }

Dep(id, name) == [attrib |-> [id |-> id, name |-> name]]

\* <dependent> children of an uploaded <option>.
DependentLists ==
    { <<>>,
      <<Dep(<<"p">>, <<"X">>)>>,
      <<Dep(<<"q">>, <<"X">>), Dep(<<"p">>, None)>>,
      <<Dep(None, <<"X">>)>> }

Options ==
    { [attrib |-> [name |-> n, value |-> v], dependent |-> d] :
        n \in NameTexts, v \in ValueTexts, d \in DependentLists }

\* The uploaded documents: the <option> children of the root, in order.
Documents == UNION { [1..n -> Options] : n \in 0..MaxOptions }

\* ------------------------------------------- generate_clean_xml_from_root
\* PairValue without the reuse of the last value.
PairValueNoReuse(values, idx) ==
    IF idx <= Len(values) THEN values[idx] ELSE <<>>

\* values[idx] if idx < len(values) else values[-1] if values else ""
\* (idx counts from 1 here).
PairValue(values, idx) ==
    IF idx <= Len(values) THEN values[idx]
    ELSE IF values # <<>> THEN values[Len(values)]
    ELSE <<>>

\* The dependent ids of one option, in document order.
DepIds(opt) == [i \in 1..Len(opt.dependent) |-> opt.dependent[i].attrib.id]

\* STEP 1 for one option: one flat item per name token.
FlattenOption(opt) ==
    LET names == split(Get(opt.attrib.name, <<>>))
        values == split(Get(opt.attrib.value, <<>>))
        dep_ids == DepIds(opt)
    IN  [idx \in 1..Len(names) |->
            [name |-> names[idx],
             value |-> PairValue(values, idx),
             deps |-> Range(dep_ids)]]

\* STEP 1: the flat items of the whole document.
RECURSIVE Flatten(_)
Flatten(root) ==
    IF root = <<>> THEN <<>>
    ELSE FlattenOption(Head(root)) \o Flatten(Tail(root))

\* All <dependent> children of the document, in document order.
RECURSIVE AllDependents(_)
AllDependents(root) ==
    IF root = <<>> THEN <<>>
    ELSE Head(root).dependent \o AllDependents(Tail(root))

\* dep_id_to_name: the first seen name of every dependent id.
RECURSIVE DepIdToName(_, _)
DepIdToName(deps, acc) ==
    IF deps = <<>> THEN acc
    ELSE LET dep_id == Head(deps).attrib.id
             dep_name == Get(Head(deps).attrib.name, <<>>)
         IN  DepIdToName(Tail(deps),
                         IF Has(acc, dep_id) THEN acc ELSE Put(acc, dep_id, dep_name))

\* STEP 2: value_to_deps, the union of the dependent ids per value.
RECURSIVE ValueToDeps(_, _)
ValueToDeps(items, acc) ==
    IF items = <<>> THEN acc
    ELSE LET val == Head(items).value
             prev == IF Has(acc, val) THEN acc[val] ELSE {}
         IN  ValueToDeps(Tail(items), Put(acc, val, prev \cup Head(items).deps))

\* Index of the group keyed dep_key in seen_dep_sets, 0 when absent.
GroupIndex(groups, dep_key) ==
    IF \E i \in 1..Len(groups) : groups[i].deps = dep_key
    THEN CHOOSE i \in 1..Len(groups) : groups[i].deps = dep_key
    ELSE 0

\* AppendUnique putting a new x in front.
PrependUnique(list, x) == IF Contains(list, x) THEN list ELSE <<x>> \o list

\* list.append(x) unless x is already in the list.
AppendUnique(list, x) == IF Contains(list, x) THEN list ELSE Append(list, x)

\* MergeItem keyed by the item's own dependent ids, not by the union.
MergeItemLiteralKey(groups, item, value_to_deps) ==
    LET dep_key == item.deps
        opened == IF GroupIndex(groups, dep_key) = 0
                  THEN Append(groups, [names |-> <<>>, values |-> <<>>, deps |-> dep_key])
                  ELSE groups
        g == GroupIndex(opened, dep_key)
    IN  [opened EXCEPT ![g] =
            [names |-> AppendUnique(opened[g].names, item.name),
             values |-> AppendUnique(opened[g].values, item.value),
             deps |-> dep_key]]

\* STEP 3, one flat item: open the group of its key if new, then add the
\* item's name and value to that group.
MergeItem(groups, item, value_to_deps) ==
    LET dep_key == value_to_deps[item.value]
        opened == IF GroupIndex(groups, dep_key) = 0
                  THEN Append(groups, [names |-> <<>>, values |-> <<>>, deps |-> dep_key])
                  ELSE groups
        g == GroupIndex(opened, dep_key)
    IN  [opened EXCEPT ![g] =
            [names |-> AppendUnique(opened[g].names, item.name),
             values |-> AppendUnique(opened[g].values, item.value),
             deps |-> dep_key]]

\* STEP 3: merged, the groups in first-seen order of their key.
RECURSIVE Merge(_, _, _)
Merge(items, value_to_deps, groups) ==
    IF items = <<>> THEN groups
    ELSE Merge(Tail(items), value_to_deps, MergeItem(groups, Head(items), value_to_deps))

\* sorted(deps, key=str)
RECURSIVE SortedByStr(_)
SortedByStr(S) ==
    IF S = {} THEN <<>>
    ELSE LET m == CHOOSE x \in S : \A y \in S \ {x} : ~StrLess(Str(y), Str(x))
         IN  <<m>> \o SortedByStr(S \ {m})

\* STEP 4, one group: its <option> element.
RebuildOption(group, dep_id_to_name) ==
    LET ids == SortedByStr(group.deps)
    IN  [attrib |-> [name |-> Join(group.names), value |-> Join(group.values)],
         dependent |->
            [i \in 1..Len(ids) |->
                [attrib |->
                    [type |-> <<"0">>,
                     id |-> ids[i],
                     name |-> IF Has(dep_id_to_name, ids[i])
                              THEN dep_id_to_name[ids[i]] ELSE <<>>,
                     reset |-> <<"f", "a", "l", "s", "e">>,
                     retainonedit |-> <<"f", "a", "l", "s", "e">>]]]]

\* STEP 4: the canonical element tree.
Rebuild(merged, dep_id_to_name) ==
    [i \in 1..Len(merged) |-> RebuildOption(merged[i], dep_id_to_name)]

\* The element tree generate_clean_xml_from_root builds from root.
generate_clean_xml_from_root(root) ==
    LET items == Flatten(root)
    IN  Rebuild(Merge(items, ValueToDeps(items, EmptyMap), <<>>),
                DepIdToName(AllDependents(root), EmptyMap))

\* ET.tostring raises TypeError on an attribute whose value is None.
CannotSerialize(tree) ==
    \E i \in 1..Len(tree) : \E j \in 1..Len(tree[i].dependent) :
        \E k \in DOMAIN tree[i].dependent[j].attrib :
            tree[i].dependent[j].attrib[k] = None

\* --------------------------------------------------------- change report
\* f"G{n}"
GId(n) == <<"G", n>>

\* f"{d.get('id')}:{d.get('name')}"
DepString(d) == Str(d.attrib.id) \o <<":">> \o Str(d.attrib.name)

\* Insert string x into the sorted list of strings.
RECURSIVE InsertSorted(_, _)
InsertSorted(list, x) ==
    IF list = <<>> THEN <<x>>
    ELSE IF StrLess(x, Head(list)) THEN <<x>> \o list
    ELSE <<Head(list)>> \o InsertSorted(Tail(list), x)

\* sorted(list of strings)
RECURSIVE Sorted(_)
Sorted(list) ==
    IF list = <<>> THEN <<>>
    ELSE InsertSorted(Sorted(Tail(list)), Head(list))

\* sorted([f"{d.get('id')}:{d.get('name')}" for d in opt.findall("dependent")])
DepStrings(opt) ==
    Sorted([i \in 1..Len(opt.dependent) |-> DepString(opt.dependent[i])])

\* for v in values: register the record's value set and dependents under v.
RECURSIVE RegisterValues(_, _, _, _)
RegisterValues(values, values_set, deps, acc) ==
    IF values = <<>> THEN acc
    ELSE LET v == Head(values)
             sets == IF Has(acc.value_to_original_group_sets, v)
                     THEN acc.value_to_original_group_sets[v] ELSE <<>>
             ds == IF Has(acc.value_to_original_deps, v)
                   THEN acc.value_to_original_deps[v] ELSE {}
         IN  RegisterValues(Tail(values), values_set, deps,
                [acc EXCEPT
                    !.value_to_original_group_sets =
                        Put(@, v, Append(sets, values_set)),
                    !.value_to_original_deps =
                        Put(@, v, ds \cup Range(deps))])

\* One original <option>: number it and index it by its raw value set.
IndexOriginalOption(acc, opt) ==
    LET g_count == acc.g_count + 1
        gid == GId(g_count)
        names == split_field(Get(opt.attrib.name, <<>>))
        values == split_field(Get(opt.attrib.value, <<>>))
        values_set == Range(values)
        deps == DepStrings(opt)
        numbered ==
            [acc EXCEPT
                !.g_count = g_count,
                !.original_groups =
                    Append(@, [id |-> gid, values_set |-> values_set,
                               names |-> names, dependents |-> deps]),
                !.original_group_set_to_id =
                    IF Has(@, values_set) THEN @ ELSE Put(@, values_set, gid)]
    IN  RegisterValues(values, values_set, deps, numbered)

\* Build original groups (preserve order).
RECURSIVE IndexOriginal(_, _)
IndexOriginal(root, acc) ==
    IF root = <<>> THEN acc
    ELSE IndexOriginal(Tail(root), IndexOriginalOption(acc, Head(root)))

NoOriginalIndex ==
    [g_count |-> 0,
     original_groups |-> <<>>,
     original_group_set_to_id |-> EmptyMap,
     value_to_original_group_sets |-> EmptyMap,
     value_to_original_deps |-> EmptyMap]

\* Build cleaned groups (preserve order from the cleaned XML).
CleanedGroups(root_clean) ==
    [i \in 1..Len(root_clean) |->
        LET values == split_field(Get(root_clean[i].attrib.value, <<>>))
        IN  [names |-> split_field(Get(root_clean[i].attrib.name, <<>>)),
             values |-> values,
             dependents |-> DepStrings(root_clean[i]),
             values_set |-> Range(values)]]

\* Hybrid G numbering, one cleaned group.
AssignGroup(acc, cg, set_to_id) ==
    LET fvset == cg.values_set
    IN  IF Has(set_to_id, fvset)
        THEN [acc EXCEPT
                !.final_valueset_to_gid = Put(@, fvset, set_to_id[fvset]),
                !.final_group_assignments = Append(@, set_to_id[fvset])]
        ELSE IF Has(acc.final_valueset_to_gid, fvset)
        THEN [acc EXCEPT
                !.final_group_assignments =
                    Append(@, acc.final_valueset_to_gid[fvset])]
        ELSE [acc EXCEPT
                !.next_g_index = @ + 1,
                !.final_valueset_to_gid = Put(@, fvset, GId(acc.next_g_index)),
                !.used_new_ids = Append(@, GId(acc.next_g_index)),
                !.final_group_assignments = Append(@, GId(acc.next_g_index))]

\* Hybrid G numbering over the cleaned groups.
RECURSIVE HybridNumbering(_, _, _)
HybridNumbering(groups, set_to_id, acc) ==
    IF groups = <<>> THEN acc
    ELSE HybridNumbering(Tail(groups), set_to_id,
                         AssignGroup(acc, Head(groups), set_to_id))

\* NoAssignments starting the new G numbers at the last original number.
NoAssignmentsFromCount(count) ==
    [next_g_index |-> count,
     final_group_assignments |-> <<>>,
     used_new_ids |-> <<>>,
     final_valueset_to_gid |-> EmptyMap]

\* Start new G numbers from next after the original groups.
NoAssignments(count) ==
    [next_g_index |-> count + 1,
     final_group_assignments |-> <<>>,
     used_new_ids |-> <<>>,
     final_valueset_to_gid |-> EmptyMap]

\* Original name mapping for the names of one option, from position i on.
RECURSIVE OriginalNamesOfOption(_, _, _, _)
OriginalNamesOfOption(names, values, i, acc) ==
    IF i > Len(names) THEN acc
    ELSE LET val == IF i <= Len(values) THEN values[i]
                    ELSE IF values # <<>> THEN values[Len(values)]
                    ELSE <<>>
         IN  OriginalNamesOfOption(names, values, i + 1,
                IF val # <<>> /\ ~Has(acc, val) THEN Put(acc, val, names[i]) ELSE acc)

\* value_to_original_name: the first name paired with every value.
RECURSIVE ValueToOriginalName(_, _)
ValueToOriginalName(root, acc) ==
    IF root = <<>> THEN acc
    ELSE ValueToOriginalName(Tail(root),
            OriginalNamesOfOption(split_field(Get(Head(root).attrib.name, <<>>)),
                                  split_field(Get(Head(root).attrib.value, <<>>)),
                                  1, acc))

\* OrigGroupId without the preference for an exactly matching original set.
OrigGroupIdFirstOnly(orig_group_sets, final_values_set, set_to_id) ==
    IF orig_group_sets = <<>> THEN <<>>
    ELSE IF Has(set_to_id, orig_group_sets[1]) THEN set_to_id[orig_group_sets[1]]
    ELSE <<>>

\* The original group id reported for a value of a cleaned group.
OrigGroupId(orig_group_sets, final_values_set, set_to_id) ==
    IF orig_group_sets = <<>> THEN <<>>
    ELSE IF \E i \in 1..Len(orig_group_sets) :
                orig_group_sets[i] = final_values_set /\ Has(set_to_id, orig_group_sets[i])
    THEN set_to_id[final_values_set]
    ELSE IF Has(set_to_id, orig_group_sets[1]) THEN set_to_id[orig_group_sets[1]]
    ELSE <<>>

\* GroupStatus looking only at the first original set of the value.
GroupStatusFirstOnly(final_values_set, orig_group_sets) ==
    IF orig_group_sets # <<>> /\ orig_group_sets[1] = final_values_set
    THEN "Non-modified" ELSE "Modified"

\* "Non-modified" if final_values_set in orig_group_sets else "Modified"
GroupStatus(final_values_set, orig_group_sets) ==
    IF Contains(orig_group_sets, final_values_set) THEN "Non-modified" ELSE "Modified"

\* The report row of value v of cleaned group cg, numbered sr.
Row(sr, v, cg, gid, idx, names_of) ==
    LET orig_group_sets == IF Has(idx.value_to_original_group_sets, v)
                           THEN idx.value_to_original_group_sets[v] ELSE <<>>
        orig_deps_set == IF Has(idx.value_to_original_deps, v)
                         THEN idx.value_to_original_deps[v] ELSE {}
        final_deps_set == Range(cg.dependents)
    IN  [sr |-> sr,
         value |-> v,
         orig_name |-> IF Has(names_of, v) THEN names_of[v] ELSE <<>>,
         final_group_name |-> Join(cg.names),
         orig_group_id |-> OrigGroupId(orig_group_sets, cg.values_set,
                                       idx.original_group_set_to_id),
         final_gid |-> gid,
         group_status |-> GroupStatus(cg.values_set, orig_group_sets),
         dependency_status |-> IF orig_deps_set = final_deps_set
                               THEN "Non-modified" ELSE "Modified",
         orig_deps |-> orig_deps_set,
         final_deps |-> final_deps_set]

\* GroupRows restarting the serial number at 1 in every group.
RECURSIVE GroupRowsRestart(_, _, _, _, _, _)
GroupRowsRestart(values, cg, gid, idx, names_of, acc) ==
    IF values = <<>> THEN acc
    ELSE LET n == Len(cg.values) - Len(values) + 1
         IN  GroupRowsRestart(Tail(values), cg, gid, idx, names_of,
                [sr |-> n + 1,
                 rows |-> Append(acc.rows,
                                 Row(n, Head(values), cg, gid, idx, names_of))])

\* The rows of one cleaned group: acc holds the next serial number and the
\* rows so far.
RECURSIVE GroupRows(_, _, _, _, _, _)
GroupRows(values, cg, gid, idx, names_of, acc) ==
    IF values = <<>> THEN acc
    ELSE GroupRows(Tail(values), cg, gid, idx, names_of,
                   [sr |-> acc.sr + 1,
                    rows |-> Append(acc.rows,
                                    Row(acc.sr, Head(values), cg, gid, idx, names_of))])

\* export_rows: one row per value of every cleaned group, in order.
RECURSIVE ExportRows(_, _, _, _, _)
ExportRows(groups, gids, idx, names_of, acc) ==
    IF groups = <<>> THEN acc.rows
    ELSE ExportRows(Tail(groups), Tail(gids), idx, names_of,
                    GroupRows(Head(groups).values, Head(groups), Head(gids),
                              idx, names_of, acc))

\* sr = 1 and no rows yet.
NoRows == [sr |-> 1, rows |-> <<>>]

\* ------------------------------------------------------------------ state
VARIABLES
    pc,              \* position of the script run
    original_root,   \* the <option> children of the uploaded document
    flat,            \* STEP 1 of the cleaning
    value_to_deps,   \* STEP 2
    merged,          \* STEP 3
    cleaned_xml,     \* the canonical document
    original_index,  \* g_count, original_groups and the maps built with them
    cleaned_groups,  \* the groups read back from the canonical document
    numbering,       \* next_g_index, final_group_assignments, used_new_ids
    export_rows      \* the report rows

vars == <<pc, original_root, flat, value_to_deps, merged, cleaned_xml,
          original_index, cleaned_groups, numbering, export_rows>>

Init ==
    /\ pc = "idle"
    /\ original_root = <<>>
    /\ flat = <<>>
    /\ value_to_deps = EmptyMap
    /\ merged = <<>>
    /\ cleaned_xml = <<>>
    /\ original_index = NoOriginalIndex
    /\ cleaned_groups = <<>>
    /\ numbering = NoAssignments(0)
    /\ export_rows = <<>>

\* A file is uploaded and parsed: original_root = ET.fromstring(xml_text).
Upload ==
    /\ pc = "idle"
    /\ \E doc \in Documents : original_root' = doc
    /\ pc' = "uploaded"
    /\ UNCHANGED <<flat, value_to_deps, merged, cleaned_xml, original_index,
                   cleaned_groups, numbering, export_rows>>

\* cleaned_xml = generate_clean_xml_from_root(original_root) returns.
Clean ==
    /\ pc = "uploaded"
    /\ flat' = Flatten(original_root)
    /\ value_to_deps' = ValueToDeps(flat', EmptyMap)
    /\ merged' = Merge(flat', value_to_deps', <<>>)
    /\ cleaned_xml' = Rebuild(merged', DepIdToName(AllDependents(original_root), EmptyMap))
    /\ ~CannotSerialize(cleaned_xml')
    /\ pc' = "cleaned"
    /\ UNCHANGED <<original_root, original_index, cleaned_groups, numbering,
                   export_rows>>

\* generate_clean_xml_from_root raises while serialising; the script reports
\* "XML parse / cleaning error" and produces neither document nor report.
CleanError ==
    /\ pc = "uploaded"
    /\ CannotSerialize(generate_clean_xml_from_root(original_root))
    /\ pc' = "error"
    /\ UNCHANGED <<original_root, flat, value_to_deps, merged, cleaned_xml,
                   original_index, cleaned_groups, numbering, export_rows>>

\* Build original groups.
BuildOriginalGroups ==
    /\ pc = "cleaned"
    /\ original_index' = IndexOriginal(original_root, NoOriginalIndex)
    /\ pc' = "indexed"
    /\ UNCHANGED <<original_root, flat, value_to_deps, merged, cleaned_xml,
                   cleaned_groups, numbering, export_rows>>

\* Build cleaned groups and assign their final G ids.
NumberGroups ==
    /\ pc = "indexed"
    /\ cleaned_groups' = CleanedGroups(cleaned_xml)
    /\ numbering' = HybridNumbering(CleanedGroups(cleaned_xml),
                                    original_index.original_group_set_to_id,
                                    NoAssignments(original_index.g_count))
    /\ pc' = "numbered"
    /\ UNCHANGED <<original_root, flat, value_to_deps, merged, cleaned_xml,
                   original_index, export_rows>>

\* Build the per-value export rows.
BuildRows ==
    /\ pc = "numbered"
    /\ export_rows' = ExportRows(cleaned_groups, numbering.final_group_assignments,
                                 original_index,
                                 ValueToOriginalName(original_root, EmptyMap),
                                 NoRows)
    /\ pc' = "done"
    /\ UNCHANGED <<original_root, flat, value_to_deps, merged, cleaned_xml,
                   original_index, cleaned_groups, numbering>>

Next ==
    \/ Upload
    \/ Clean
    \/ CleanError
    \/ BuildOriginalGroups
    \/ NumberGroups
    \/ BuildRows

Spec == Init /\ [][Next]_vars

\* ------------------------------------------------------------- properties
\* generate_clean_xml_from_root has just returned the canonical document;
\* flat, value_to_deps, merged and cleaned_xml are not assigned again.
Produced == pc = "cleaned"

\* The value tokens of one <option>, and of a whole document.
ValueTokens(opt) == split(Get(opt.attrib.value, <<>>))

NameTokens(opt) == split(Get(opt.attrib.name, <<>>))

DocValues(root) == UNION {Range(ValueTokens(root[i])) : i \in 1..Len(root)}

\* The dependent ids of one <option>, as a set.
DepIdSet(opt) == Range(DepIds(opt))

\* C1. Value-set conservation: the distinct value tokens of the original
\* options are exactly the distinct value tokens of the canonical options.
C1_ValueSetConservation ==
    Produced => DocValues(original_root) = DocValues(cleaned_xml)

\* C2. Dependent union correctness: the canonical option of a value carries
\* the union of the dependent ids of every original record whose value
\* attribute contains the value, paired with a name there or not.
C2_DependentUnion ==
    Produced =>
        \A g \in 1..Len(cleaned_xml) : \A v \in Range(ValueTokens(cleaned_xml[g])) :
            DepIdSet(cleaned_xml[g]) =
                UNION {DepIdSet(original_root[r]) :
                          r \in {k \in 1..Len(original_root) :
                                    v \in Range(ValueTokens(original_root[k]))}}

NoDuplicates(s) == \A i, j \in 1..Len(s) : s[i] = s[j] => i = j

\* An already canonical document: unique names and values per option, no
\* value in two options, no two options with the same dependent ids.
IsCanonical(root) ==
    /\ \A i \in 1..Len(root) :
          NoDuplicates(NameTokens(root[i])) /\ NoDuplicates(ValueTokens(root[i]))
    /\ \A i, j \in 1..Len(root) :
          i # j => /\ Range(ValueTokens(root[i])) \cap Range(ValueTokens(root[j])) = {}
                   /\ DepIdSet(root[i]) # DepIdSet(root[j])

\* Same number of options and, option by option, same value and name sets.
SameGroups(a, b) ==
    /\ Len(a) = Len(b)
    /\ \A i \in 1..Len(a) :
          /\ Range(ValueTokens(a[i])) = Range(ValueTokens(b[i]))
          /\ Range(NameTokens(a[i])) = Range(NameTokens(b[i]))

\* C3. Idempotence of canonicalization: the canonical document is already
\* canonical, and cleaning it again gives the same number of options with,
\* option by option, the same value set and the same name set.
C3_Idempotent ==
    Produced =>
        /\ IsCanonical(cleaned_xml)
        /\ SameGroups(cleaned_xml, generate_clean_xml_from_root(cleaned_xml))

\* The unified dependent ids of value v: the union of the dependent ids of
\* every flat item carrying v.
Unified(v) == UNION {flat[i].deps : i \in {k \in 1..Len(flat) : flat[k].value = v}}

FlatValues == {flat[i].value : i \in 1..Len(flat)}

\* The canonical groups that list value v.
GroupsOf(v) == {g \in 1..Len(merged) : Contains(merged[g].values, v)}

\* C4. Merge correctness: two flattened values share a canonical option
\* exactly when their unified dependent ids are equal; every value is in
\* exactly one canonical option, and no two canonical options have the same
\* dependent ids.
C4_MergeCorrectness ==
    Produced =>
        /\ \A v \in FlatValues : Cardinality(GroupsOf(v)) = 1
        /\ \A v1, v2 \in FlatValues :
              (GroupsOf(v1) = GroupsOf(v2)) <=> (Unified(v1) = Unified(v2))
        /\ Len(cleaned_xml) = Len(merged)
        /\ \A g \in 1..Len(merged) :
              /\ DepIdSet(cleaned_xml[g]) = merged[g].deps
              /\ Range(ValueTokens(cleaned_xml[g])) = Range(merged[g].values) \ {<<>>}
        /\ \A g, h \in 1..Len(cleaned_xml) :
              g # h => DepIdSet(cleaned_xml[g]) # DepIdSet(cleaned_xml[h])

\* Two values whose flat items carry different dependent ids are merged into
\* one option, their unions being equal.
C4_Witness ==
    /\ Produced
    /\ \E i, j \in 1..Len(flat) :
          /\ flat[i].value # flat[j].value
          /\ flat[i].deps # flat[j].deps
          /\ GroupsOf(flat[i].value) = GroupsOf(flat[j].value)

\* The final G ids have just been assigned; they are not assigned again.
Numbered == pc = "numbered"

\* The raw value set of original record r and the value set of canonical
\* group g.
RawSet(r) == Range(ValueTokens(original_root[r]))

CanonSet(g) == Range(ValueTokens(cleaned_xml[g]))

\* The original records whose raw value set is that of canonical group g.
Matches(g) == {r \in 1..Len(original_root) : RawSet(r) = CanonSet(g)}

Min(S) == CHOOSE x \in S : \A y \in S : x <= y

\* The number of distinct unmatched value sets among canonical groups 1..g.
FreshRank(g) == Cardinality({CanonSet(h) : h \in {k \in 1..g : Matches(k) = {}}})

\* C5. Hybrid numbering: a canonical group whose value set is the raw value
\* set of an original record takes the id of the first such record; every
\* other group takes a fresh id, G(N+1), G(N+2), ... in canonical-group order
\* without gaps (one id per distinct value set), never an original id.
C5_HybridNumbering ==
    Numbered =>
        /\ Len(numbering.final_group_assignments) = Len(cleaned_xml)
        /\ \A g \in 1..Len(cleaned_xml) :
              numbering.final_group_assignments[g] =
                  IF Matches(g) # {} THEN GId(Min(Matches(g)))
                  ELSE GId(Len(original_root) + FreshRank(g))
        /\ \A g \in 1..Len(cleaned_xml) : \A r \in 1..Len(original_root) :
              Matches(g) = {} => numbering.final_group_assignments[g] # GId(r)

\* One canonical group inherits an original id and another gets a fresh one.
C5_Witness ==
    /\ Numbered
    /\ \E g, h \in 1..Len(cleaned_xml) : Matches(g) # {} /\ Matches(h) = {}

\* The value tokens of the canonical options, option after option.
RECURSIVE CanonicalValueList(_)
CanonicalValueList(root) ==
    IF root = <<>> THEN <<>>
    ELSE ValueTokens(Head(root)) \o CanonicalValueList(Tail(root))

\* C6. Report completeness: one row per distinct canonical value, none
\* twice; the serial numbers are 1, 2, ..., N in row order; rows follow the
\* canonical groups and, within a group, its values.
C6_ReportCompleteness ==
    pc = "done" =>
        /\ Len(export_rows) = Cardinality(DocValues(cleaned_xml))
        /\ \A k \in 1..Len(export_rows) : export_rows[k].sr = k
        /\ [k \in 1..Len(export_rows) |-> export_rows[k].value]
              = CanonicalValueList(cleaned_xml)
        /\ \A j, k \in 1..Len(export_rows) :
              export_rows[j].value = export_rows[k].value => j = k

\* A report with rows from two canonical groups, one of them with two values.
C6_Witness ==
    /\ pc = "done"
    /\ Len(cleaned_xml) >= 2
    /\ Len(export_rows) >= 3

\* The canonical group that lists value v.
CanonGroupOf(v) == CHOOSE g \in 1..Len(cleaned_xml) : v \in CanonSet(g)

\* C7. Reconciliation status: a row is "Non-modified" exactly when the value
\* set of the value's canonical group is the raw value set of an original
\* record containing the value, and "Modified" otherwise.
C7_GroupStatus ==
    pc = "done" =>
        \A k \in 1..Len(export_rows) :
            LET v == export_rows[k].value
                kept == \E r \in 1..Len(original_root) :
                            v \in RawSet(r) /\ RawSet(r) = CanonSet(CanonGroupOf(v))
            IN  /\ export_rows[k].group_status \in {"Non-modified", "Modified"}
                /\ (export_rows[k].group_status = "Non-modified") <=> kept

\* One row is "Non-modified" although the first original record holding its
\* value has another value set, and one row is "Modified".
C7_Witness ==
    /\ pc = "done"
    /\ \E j, k \in 1..Len(export_rows) :
          /\ export_rows[j].group_status = "Non-modified"
          /\ \E r \in 1..Len(original_root) :
                /\ export_rows[j].value \in RawSet(r)
                /\ RawSet(r) # CanonSet(CanonGroupOf(export_rows[j].value))
                /\ \A q \in 1..(r - 1) : export_rows[j].value \notin RawSet(q)
          /\ export_rows[k].group_status = "Modified"

\* C8. Structural looseness is never an error: whatever attributes are
\* missing from the uploaded options and dependents, the run never ends in
\* the error outcome of a parse failure.
C8_NeverError == pc # "error"

\* The flat items whose value has the dependent-id union of group g.
ItemsOf(g) == {i \in 1..Len(flat) : Unified(flat[i].value) = merged[g].deps}

\* First position among the flat items of group g carrying name n, value v.
FirstWithName(g, n) == Min({i \in ItemsOf(g) : flat[i].name = n})

FirstWithValue(g, v) == Min({i \in ItemsOf(g) : flat[i].value = v})

\* C9. First-seen ordering: the canonical options are in the order in which
\* their dependent-id union first occurs among the flat items; the names and
\* the values of an option are those of its flat items, without duplicates,
\* in the order of their first occurrence; the document lists them so.
C9_FirstSeenOrder ==
    Produced =>
        /\ \A g, h \in 1..Len(merged) :
              g < h => Min(ItemsOf(g)) < Min(ItemsOf(h))
        /\ \A g \in 1..Len(merged) :
              LET names == merged[g].names
                  values == merged[g].values
              IN  /\ NoDuplicates(names) /\ NoDuplicates(values)
                  /\ Range(names) = {flat[i].name : i \in ItemsOf(g)}
                  /\ Range(values) = {flat[i].value : i \in ItemsOf(g)}
                  /\ \A a, b \in 1..Len(names) :
                        a < b => FirstWithName(g, names[a]) < FirstWithName(g, names[b])
                  /\ \A a, b \in 1..Len(values) :
                        a < b => FirstWithValue(g, values[a]) < FirstWithValue(g, values[b])
                  /\ NameTokens(cleaned_xml[g]) = names
                  /\ ValueTokens(cleaned_xml[g]) = SelectSeq(values, LAMBDA v : v # <<>>)

\* Two canonical options, one of them listing name B before name A and two
\* values.
C9_Witness ==
    /\ Produced
    /\ Len(merged) >= 2
    /\ \E g \in 1..Len(merged) :
          /\ Len(merged[g].values) >= 2
          /\ SubSeq(merged[g].names, 1, 2) = <<(<<"B">>), (<<"A">>)>>

\* The number of flat items of original records 1..r.
RECURSIVE ItemsBefore(_)
ItemsBefore(r) ==
    IF r = 0 THEN 0
    ELSE ItemsBefore(r - 1) + Len(NameTokens(original_root[r]))

\* C10. Positional pairing with last-value reuse: every original record gives
\* one flat item per name token, in name order; the i-th name goes with the
\* i-th value token, with the last value token when the record has fewer
\* values than names, with the empty string when it has none; every item
\* carries all dependent ids of its record.  The original name reported for
\* a value is the name of the first flat item with that value.
C10_PositionalPairing ==
    /\ Produced =>
        /\ Len(flat) = ItemsBefore(Len(original_root))
        /\ \A r \in 1..Len(original_root) :
              LET names == NameTokens(original_root[r])
                  values == ValueTokens(original_root[r])
              IN  \A i \in 1..Len(names) :
                      LET item == flat[ItemsBefore(r - 1) + i]
                      IN  /\ item.name = names[i]
                          /\ i <= Len(values) => item.value = values[i]
                          /\ (i > Len(values) /\ Len(values) > 0)
                                => item.value = values[Len(values)]
                          /\ Len(values) = 0 => item.value = <<>>
                          /\ item.deps = DepIdSet(original_root[r])
    /\ pc = "done" =>
        \A k \in 1..Len(export_rows) :
            LET with == {i \in 1..Len(flat) : flat[i].value = export_rows[k].value}
            IN  /\ with # {}
                /\ export_rows[k].orig_name = flat[Min(with)].name

\* A report for a document with a record that has more names than values and
\* at least one value, and a record that has names and no value.
C10_Witness ==
    /\ pc = "done"
    /\ \E r, s \in 1..Len(original_root) :
          /\ Len(ValueTokens(original_root[r])) > 0
          /\ Len(NameTokens(original_root[r])) > Len(ValueTokens(original_root[r]))
          /\ Len(ValueTokens(original_root[s])) = 0
          /\ Len(NameTokens(original_root[s])) > 0

\* The ids G1..GN of the original records.
OriginalIds == {GId(r) : r \in 1..Len(original_root)}

\* C11. In every report row the Original Group ID is one of G1..GN, never
\* empty; the row is "Non-modified" exactly when its Original Group ID is
\* its Final Group ID; a "Modified" row has a fresh Final Group ID, numbered
\* above N.
C11_OriginalVersusFinalId ==
    pc = "done" =>
        \A k \in 1..Len(export_rows) :
            LET row == export_rows[k]
            IN  /\ row.orig_group_id # <<>>
                /\ row.orig_group_id \in OriginalIds
                /\ (row.group_status = "Non-modified")
                      <=> (row.orig_group_id = row.final_gid)
                /\ row.group_status = "Modified" =>
                      /\ row.final_gid \notin OriginalIds
                      /\ row.final_gid[1] = "G"
                      /\ row.final_gid[2] > Len(original_root)

\* A report with a "Modified" row and with a "Non-modified" row whose value
\* first occurs in an original record with another value set.
C11_Witness ==
    /\ pc = "done"
    /\ \E j, k \in 1..Len(export_rows) :
          /\ export_rows[k].group_status = "Modified"
          /\ export_rows[j].group_status = "Non-modified"
          /\ export_rows[j].orig_group_id # <<>>
          /\ \E r \in 1..Len(original_root) :
                /\ export_rows[j].value \in RawSet(r)
                /\ GId(r) # export_rows[j].orig_group_id
                /\ \A q \in 1..(r - 1) : export_rows[j].value \notin RawSet(q)

====
